---- MODULE Spec2Model ----
(***************************************************************************)
(* Commission reconciler (commission_app): field extraction, commission    *)
(* calculation, the update decision, the batch and the event entry modes,  *)
(* the CRM client's write-back and the webhook endpoint.                   *)
(*                                                                         *)
(* Conventions.  Money is an integer number of cents: 100000.00 is         *)
(* 10000000.  Text is a sequence of one-character strings.  A Python       *)
(* value is a record [t, v, s]: t is the type tag ("missing" for an absent *)
(* dictionary key, "none", "num", "str", "other" for a list or a dict),    *)
(* v the number and s the text.  The sampled amounts avoid exact half-cent *)
(* products, where binary floating point and exact arithmetic disagree.    *)
(***************************************************************************)
EXTENDS Integers, Sequences, FiniteSets, TLC

\* ------------------------------------------------------------------------
\* Python values
\* ------------------------------------------------------------------------
Missing == [t |-> "missing", v |-> 0, s |-> <<>>]
PyNone == [t |-> "none", v |-> 0, s |-> <<>>]
Other == [t |-> "other", v |-> 0, s |-> <<>>]
Num(n) == [t |-> "num", v |-> n, s |-> <<>>]
Str(cs) == [t |-> "str", v |-> 0, s |-> cs]

\* dict.get(key, default): the default only replaces an absent key
GetDefault(x, d) == IF x.t = "missing" THEN d ELSE x
\* dict.get(key): an absent key reads as None
Get(x) == GetDefault(x, PyNone)

\* Python truthiness of a value (a sampled list or dict is non-empty)
Truthy(x) ==
  CASE x.t = "missing" -> FALSE
    [] x.t = "none" -> FALSE
    [] x.t = "num" -> x.v # 0
    [] x.t = "str" -> x.s # <<>>
    [] OTHER -> TRUE

\* a or b
PyOr(a, b) == IF Truthy(a) THEN a ELSE b

Abs(n) == IF n < 0 THEN -n ELSE n

\* ------------------------------------------------------------------------
\* Text
\* ------------------------------------------------------------------------
UpperCase == <<"A","B","C","D","E","F","G","H","I","J","K","L","M",
               "N","O","P","Q","R","S","T","U","V","W","X","Y","Z">>
LowerCase == <<"a","b","c","d","e","f","g","h","i","j","k","l","m",
               "n","o","p","q","r","s","t","u","v","w","x","y","z">>
Digits == <<"0","1","2","3","4","5","6","7","8","9">>

LowerChar(c) ==
  IF \E i \in 1..26 : UpperCase[i] = c
  THEN LowerCase[CHOOSE i \in 1..26 : UpperCase[i] = c]
  ELSE c

\* str.lower()
Lower(cs) == [i \in 1..Len(cs) |-> LowerChar(cs[i])]

\* str.replace(c, rep) for a one-character pattern c
RECURSIVE ReplaceChar(_, _, _)
ReplaceChar(cs, c, rep) ==
  IF cs = <<>> THEN <<>>
  ELSE (IF Head(cs) = c THEN rep ELSE <<Head(cs)>>) \o ReplaceChar(Tail(cs), c, rep)

\* str.replace("__", "_"): leftmost non-overlapping occurrences, one pass
RECURSIVE ReplaceDoubleUnderscore(_)
ReplaceDoubleUnderscore(cs) ==
  IF Len(cs) < 2 THEN cs
  ELSE IF cs[1] = "_" /\ cs[2] = "_"
       THEN <<"_">> \o ReplaceDoubleUnderscore(Tail(Tail(cs)))
       ELSE <<Head(cs)>> \o ReplaceDoubleUnderscore(Tail(cs))

\* str.strip(): whitespace off both ends
RECURSIVE LStrip(_)
LStrip(cs) == IF cs # <<>> /\ Head(cs) = " " THEN LStrip(Tail(cs)) ELSE cs
RECURSIVE RStrip(_)
RStrip(cs) ==
  IF cs # <<>> /\ cs[Len(cs)] = " " THEN RStrip(SubSeq(cs, 1, Len(cs) - 1)) ELSE cs
Strip(cs) == RStrip(LStrip(cs))

\* value.replace('$', '').replace(',', '').strip()
CleanCurrency(cs) == Strip(ReplaceChar(ReplaceChar(cs, "$", <<>>), ",", <<>>))

IsDigit(c) == \E i \in 1..10 : Digits[i] = c
DigitVal(c) == (CHOOSE i \in 1..10 : Digits[i] = c) - 1
AllDigits(cs) == \A i \in 1..Len(cs) : IsDigit(cs[i])

RECURSIVE DigitsValue(_)
DigitsValue(cs) ==
  IF cs = <<>> THEN 0
  ELSE 10 * DigitsValue(SubSeq(cs, 1, Len(cs) - 1)) + DigitVal(cs[Len(cs)])

DotAt(cs) == IF \E i \in 1..Len(cs) : cs[i] = "."
             THEN CHOOSE i \in 1..Len(cs) : cs[i] = "."
             ELSE 0

\* float(text) for plain decimal literals: optional surrounding blanks, an
\* optional sign, digits with an optional point.  ok = FALSE is ValueError.
\* The value is in cents; sampled literals carry at most two decimals.
FloatOfDigits(ip, fp) ==
  IF AllDigits(ip) /\ AllDigits(fp) /\ Len(ip) + Len(fp) > 0
  THEN [ok |-> TRUE, v |-> 100 * DigitsValue(ip) + DigitsValue(SubSeq(fp \o <<"0", "0">>, 1, 2))]
  ELSE [ok |-> FALSE, v |-> 0]

FloatOfParts(cs, d) ==
  FloatOfDigits(IF d = 0 THEN cs ELSE SubSeq(cs, 1, d - 1),
                IF d = 0 THEN <<>> ELSE SubSeq(cs, d + 1, Len(cs)))

FloatOfUnsigned(cs) == FloatOfParts(cs, DotAt(cs))

WithSign(negative, r) == IF negative THEN [ok |-> r.ok, v |-> 0 - r.v] ELSE r

FloatOfStripped(cs) ==
  IF cs = <<>> THEN [ok |-> FALSE, v |-> 0]
  ELSE WithSign(Head(cs) = "-",
                FloatOfUnsigned(IF Head(cs) \in {"-", "+"} THEN Tail(cs) ELSE cs))

FloatOfText(text) == FloatOfStripped(Strip(text))

FloatResult(p) == IF p.ok THEN [r |-> "ok", v |-> p.v] ELSE [r |-> "ValueError", v |-> 0]

\* float(x) on any value: "ok", "ValueError" (bad text) or "TypeError"
\* (None, list, dict)
PyFloat(x) ==
  CASE x.t = "num" -> [r |-> "ok", v |-> x.v]
    [] x.t = "str" -> FloatResult(FloatOfText(x.s))
    [] OTHER -> [r |-> "TypeError", v |-> 0]

\* ------------------------------------------------------------------------
\* config.py
\* ------------------------------------------------------------------------
\* COMMISSION_RATE = 0.015, as thousandths
COMMISSION_RATE == 15

\* LOAN_AMOUNT_FIELD_KEY (the default of the environment variable)
LOAN_AMOUNT_FIELD_KEY ==
  <<"l","o","a","n","_","w","i","t","h","_","m","i","p","f","u","n","d","i","n","g","_","f","e","e">>

\* ------------------------------------------------------------------------
\* logic.py: pure functions
\* ------------------------------------------------------------------------
\* f_name.lower().replace(" ", "_").replace("/", "").replace("__", "_")
NormalizeName(cs) ==
  ReplaceDoubleUnderscore(ReplaceChar(ReplaceChar(Lower(cs), " ", <<"_">>), "/", <<>>))

\* The match test of one custom field, on the normalized name and key
FieldMatchesNorm(f_id, f_key, f_name_norm, target_key_norm) ==
  \/ f_id = Str(LOAN_AMOUNT_FIELD_KEY)
  \/ f_key = Str(LOAN_AMOUNT_FIELD_KEY)
  \/ f_name_norm = target_key_norm
  \/ ReplaceChar(f_name_norm, "_", <<>>) = ReplaceChar(target_key_norm, "_", <<>>)

FieldMatches(f_id, f_key, f_name) ==
  FieldMatchesNorm(f_id, f_key, NormalizeName(f_name), Lower(LOAN_AMOUNT_FIELD_KEY))

\* try: return float(cleaned_value) / except ValueError: return 0.0
ParsedOrZero(p) == [r |-> "ok", v |-> IF p.ok THEN p.v ELSE 0]

\* The body of the match: text is cleaned and parsed, a number is returned
\* as it is, and any other value returns nothing, so the loop goes on to
\* the remaining fields (rest)
MatchedValue(value, rest) ==
  IF value.t = "str" THEN ParsedOrZero(FloatOfText(CleanCurrency(value.s)))
  ELSE IF value.t = "num" THEN [r |-> "ok", v |-> value.v]
  ELSE rest

\* The loop of get_loan_amount over the custom fields.  r = "raise" is the
\* AttributeError of f_name.lower() on a name that is not text.
RECURSIVE ScanFields(_)
ScanFields(fields) ==
  IF fields = <<>> THEN [r |-> "ok", v |-> 0]
  ELSE LET field == Head(fields)
           f_id == GetDefault(field.id, Str(<<>>))
           f_key == GetDefault(field.key, Str(<<>>))
           f_name == GetDefault(field.name, Str(<<>>))
           value == Get(field.value)
       IN IF f_name.t # "str" THEN [r |-> "raise", v |-> 0]
          ELSE IF FieldMatches(f_id, f_key, f_name.s)
               THEN MatchedValue(value, ScanFields(Tail(fields)))
               ELSE ScanFields(Tail(fields))

get_loan_amount(opportunity) == ScanFields(opportunity.customFields)

\* round(x, 2) of the exact quotient n / d (d > 0), ties to even
RoundHalfEven(n, d) ==
  LET q == n \div d
      r == n % d
  IN IF 2 * r < d THEN q
     ELSE IF 2 * r > d THEN q + 1
     ELSE IF q % 2 = 0 THEN q ELSE q + 1

calculate_commission(loan_amount) == RoundHalfEven(loan_amount * COMMISSION_RATE, 1000)

\* The 0.01 tolerance of should_update, in cents
Tolerance == 1

\* abs(current_value - calculated_value) > 0.01
Differs(current_value, calculated_value) ==
  [r |-> "ok", b |-> Abs(current_value - calculated_value) > Tolerance]

\* try: float(current_value) / except ValueError: 0.0; a TypeError leaves
\* the function (r = "raise")
DiffersFloat(f, calculated_value) ==
  IF f.r = "TypeError" THEN [r |-> "raise", b |-> FALSE]
  ELSE Differs(IF f.r = "ok" THEN f.v ELSE 0, calculated_value)

\* The stored value read from a key the record does not have: always 0.0
ShouldUpdateValue_StoredIgnored(current_value, calculated_value) ==
  Differs(0, calculated_value)

ShouldUpdateValue(current_value, calculated_value) ==
  IF current_value.t = "none" THEN Differs(0, calculated_value)
  ELSE DiffersFloat(PyFloat(current_value), calculated_value)

should_update(opportunity, calculated_value) ==
  ShouldUpdateValue(Get(opportunity.monetaryValue), calculated_value)

\* The guard with the boundary off by one: zero passes as a valid amount
NoValidLoanAmount_ZeroPasses(loan_amount) == loan_amount < 0

\* "if loan_amount <= 0: continue" / "return False, Skipped"
NoValidLoanAmount(loan_amount) == loan_amount <= 0

\* ------------------------------------------------------------------------
\* ghl_client.py: the write-back
\* ------------------------------------------------------------------------
\* No record handed to the client (existing_opp=None), no record found
NoOpp == [id |-> "", pipelineId |-> "", lifecycle |-> "", monetaryValue |-> Missing,
          status |-> Missing, pipelineStageId |-> Missing, customFields |-> <<>>]

\* The PUT body of commission_app/ghl_client.py: the value, and status and
\* stage copied from existing_opp when it is given and they are truthy.
\* (The display-name fields of the body are not tracked.)
BuildPayload(monetary_value, existing_opp) ==
  [monetaryValue |-> monetary_value,
   status |-> IF existing_opp # NoOpp /\ Truthy(Get(existing_opp.status))
              THEN Get(existing_opp.status) ELSE Missing,
   pipelineStageId |-> IF existing_opp # NoOpp /\ Truthy(Get(existing_opp.pipelineStageId))
                       THEN Get(existing_opp.pipelineStageId) ELSE Missing]

\* What the remote store can answer to a PUT
Responses == {"2xx", "non2xx", "exception"}

\* Return value of update_opportunity_value, commission_app/ghl_client.py.
\* The class body holds the method twice; the later definition (lines
\* 122-203) is the one bound.  It returns True after requests.put returned,
\* whatever the status, and False when requests.put raised.
UpdateReturnApp(resp) == resp # "exception"

\* Return value of update_opportunity_value, src/ghl_client.py:
\* raise_for_status() turns a non-2xx answer into the caught exception
UpdateReturnRoot(resp) == resp = "2xx"

UpdateReturn(client, resp) ==
  IF client = "app" THEN UpdateReturnApp(resp) ELSE UpdateReturnRoot(resp)

\* ------------------------------------------------------------------------
\* Sampled records of the remote store
\* ------------------------------------------------------------------------
Chars(key) ==
  CASE key = "other" -> <<"o","t","h","e","r">>
    [] key = "test" -> <<"t","e","s","t">>
    [] key = "abc" -> <<"a","b","c">>
    [] key = "$150,000.50" -> <<"$","1","5","0",",","0","0","0",".","5","0">>
    [] key = "$200,000" -> <<"$","2","0","0",",","0","0","0">>
    [] key = " 1500.00 " -> <<" ","1","5","0","0",".","0","0"," ">>
    [] key = "0" -> <<"0">>
    [] key = "-5" -> <<"-","5">>
    [] key = "open" -> <<"o","p","e","n">>
    [] key = "won" -> <<"w","o","n">>
    [] key = "stage1" -> <<"s","t","a","g","e","1">>
    [] key = "Loan With/ MIPFunding Fee" ->
         <<"L","o","a","n"," ","W","i","t","h","/"," ","M","I","P","F","u","n","d","i","n","g"," ","F","e","e">>
    [] key = "LoanWithMipfundingFee" ->
         <<"L","o","a","n","W","i","t","h","M","i","p","f","u","n","d","i","n","g","F","e","e">>

Field(id, key, name, value) == [id |-> id, key |-> key, name |-> name, value |-> value]
ById(value) == Field(Str(LOAN_AMOUNT_FIELD_KEY), Missing, Missing, value)
ByKey(value) == Field(Missing, Str(LOAN_AMOUNT_FIELD_KEY), Missing, value)
ByName(name, value) == Field(Missing, Missing, Str(Chars(name)), value)
Unrelated == Field(Str(Chars("other")), Missing, Missing, Str(Chars("test")))
NullName == Field(Str(Chars("other")), Missing, PyNone, Num(10000000))

\* Custom-field collections: none, a plain number, text, zero, negative,
\* unparseable text, a match by key and by name, a field whose name is null
FieldSamples ==
  { <<>>,
    <<ById(Num(10000000))>>,
    <<Unrelated, ById(Num(10000000))>>,
    <<ById(Str(Chars("$150,000.50")))>>,
    <<ById(Num(0))>>,
    <<ByKey(Num(-500))>>,
    <<ById(Str(Chars("abc")))>>,
    <<ByName("Loan With/ MIPFunding Fee", Num(10000000))>>,
    <<NullName, ById(Num(10000000))>> }

\* Stored monetary values: absent, null, numbers on and around the targets,
\* parseable text, unparseable text, a value that is no number at all
ValueSamples ==
  { Missing, PyNone, Num(50000), Num(150000), Num(150001), Num(150002),
    Str(Chars(" 1500.00 ")), Str(Chars("abc")), Other }

\* Workflow state as the record carries it: (status, pipelineStageId)
StateSamples ==
  { <<Missing, Missing>>,
    <<Str(Chars("open")), Str(Chars("stage1"))>> }

Opp(id, pipelineId, lifecycle, value, state, fields) ==
  [id |-> id, pipelineId |-> pipelineId, lifecycle |-> lifecycle, monetaryValue |-> value,
   status |-> state[1], pipelineStageId |-> state[2], customFields |-> fields]

OppIds == <<"opp1", "opp2", "opp3">>
Pipelines == {"pip1", "pip2"}

OpenState == <<Str(Chars("open")), Str(Chars("stage1"))>>

\* The three records of test_process_opportunities
ScenarioStore ==
  [i \in {"opp1", "opp2", "opp3"} |->
     CASE i = "opp1" -> Opp("opp1", "pip1", "open", Num(50000), <<Missing, Missing>>,
                            <<ById(Num(10000000))>>)
       [] i = "opp2" -> Opp("opp2", "pip1", "open", Num(250000), <<Missing, Missing>>,
                            <<ById(Num(25000000))>>)
       [] i = "opp3" -> Opp("opp3", "pip1", "open", Num(0), <<Missing, Missing>>, <<>>)]

\* Stores of a batch run: opp1 ranges over every sample, opp2 over a few
\* records in the other pipeline, opp3 is absent
BatchStores ==
  { [i \in {"opp1", "opp2", "opp3"} |->
       CASE i = "opp1" -> Opp("opp1", "pip1", "open", v, st, f)
         [] i = "opp2" -> Opp("opp2", "pip2", "open", v2, OpenState, f2)
         [] i = "opp3" -> NoOpp] :
     v \in ValueSamples, st \in StateSamples, f \in FieldSamples,
     v2 \in {Num(50000)},
     f2 \in {<<>>, <<ById(Num(10000000))>>} }
  \cup {ScenarioStore}

\* ------------------------------------------------------------------------
\* State
\* ------------------------------------------------------------------------
\* Runs of one entry point (batch passes, deliveries of one event)
MaxPasses == 2

\* Webhook calls in flight; "c2" runs only when two requests are handled
\* at once (mode "concurrent")
Calls == {"c1", "c2"}

VARIABLES
  mode,           \* the entry point this process runs: "batch" or "event";
                  \* "concurrent" for event mode handling two requests at
                  \* once; "pure" when single functions of logic.py are called
  store,          \* the remote store: record id -> record, NoOpp when absent
  writes,         \* every PUT issued, in order
  client,         \* batch: which GHLClient is passed in ("root" or "app")
  bpc,            \* batch: "idle", "running", "returned", "raised"
  opps,           \* batch: the list handed to process_opportunities
  idx,            \* batch: position of the for loop in opps
  updated_count,  \* batch: local of process_opportunities
  errors_count,   \* batch: local of process_opportunities
  passes,         \* batch: passes started
  epc,            \* event: per call "idle", "fetched", "done"
  req,            \* event: the webhook body of the call
  eopp,           \* event: what get_opportunity returned
  eres,           \* event: the HTTP answer and the (success, message) pair
  edec,           \* event: loan_amount and expected_value of the call, and its branch
  trail,          \* event: remote reads made by the call, in order
  deliveries,     \* event: deliveries of the call's webhook handled or begun
  pcall,          \* pure: the function called and its arguments
  pret            \* pure: what the call returned, or that it raised

vars == <<mode, store, writes, client, bpc, opps, idx, updated_count, errors_count,
          passes, epc, req, eopp, eres, edec, trail, deliveries, pcall, pret>>

batchVars == <<client, bpc, opps, idx, updated_count, errors_count, passes>>
eventVars == <<epc, req, eopp, eres, edec, trail, deliveries>>
pureVars == <<pcall, pret>>

\* fetch_opportunities(status="open"): the open records of every pipeline
\* whose listing answered 200, pipeline by pipeline (okPipes = {} also
\* stands for a failed pipelines request)
fetch_opportunities(st, okPipes) ==
  LET ids == SelectSeq(OppIds, LAMBDA i :
               st[i] # NoOpp /\ st[i].lifecycle = "open" /\ st[i].pipelineId \in okPipes)
  IN [k \in 1..Len(ids) |-> st[ids[k]]]

\* The remote store after it accepted a PUT of monetaryValue
StoreAfterPut(st, id, resp, monetary_value) ==
  IF resp = "2xx" /\ id \in DOMAIN st /\ st[id] # NoOpp
  THEN [st EXCEPT ![id].monetaryValue = Num(monetary_value)]
  ELSE st

NoResult == [http |-> 0, status |-> "", success |-> FALSE, message |-> ""]
NoDecision == [d |-> "", amount |-> 0, value |-> 0]
NoCall == [fn |-> "", customFields |-> <<>>, monetaryValue |-> Missing, calculated_value |-> 0]
NoReturn == [r |-> "", v |-> 0, b |-> FALSE]
NoReq == [body |-> "none", id |-> "", pipelineId |-> "", pipeline_id |-> "",
          customData |-> "missing", amounts |-> <<Missing, Missing, Missing, Missing>>]

\* No function of logic.py is called on its own
PureIdle == pcall = NoCall /\ pret = NoReturn

InitBatch ==
  /\ mode = "batch"
  /\ PureIdle
  /\ store \in BatchStores
  /\ client \in {"root", "app"}

InitCommon ==
  /\ writes = <<>>
  /\ bpc = "idle"
  /\ opps = <<>>
  /\ idx = 0
  /\ updated_count = 0
  /\ errors_count = 0
  /\ passes = 0
  /\ epc = [c \in Calls |-> "idle"]
  /\ req = [c \in Calls |-> NoReq]
  /\ eopp = [c \in Calls |-> NoOpp]
  /\ eres = [c \in Calls |-> NoResult]
  /\ edec = [c \in Calls |-> NoDecision]
  /\ trail = [c \in Calls |-> <<>>]
  /\ deliveries = [c \in Calls |-> 0]

\* ------------------------------------------------------------------------
\* Batch mode: process_opportunities(client, opportunities)
\* ------------------------------------------------------------------------
\* The caller fetches the open records and calls process_opportunities
BatchStart ==
  /\ mode = "batch"
  /\ bpc \in {"idle", "returned", "raised"}
  /\ passes < MaxPasses
  /\ \E okPipes \in {Pipelines, {"pip2"}} : opps' = fetch_opportunities(store, okPipes)
  /\ bpc' = "running"
  /\ idx' = 1
  /\ updated_count' = 0
  /\ errors_count' = 0
  /\ passes' = passes + 1
  /\ UNCHANGED <<mode, store, writes, client>>
  /\ UNCHANGED eventVars
  /\ UNCHANGED pureVars

\* Steps 3 and 4 of both entry points, given the should_update result
DecideWith(amount, expected_value, su) ==
  IF su.r = "raise" THEN [d |-> "raise", amount |-> amount, value |-> expected_value]
  ELSE IF su.b THEN [d |-> "write", amount |-> amount, value |-> expected_value]
  ELSE [d |-> "correct", amount |-> amount, value |-> expected_value]

DecideUpdate(opp, amount, expected_value) ==
  DecideWith(amount, expected_value, should_update(opp, expected_value))

\* Steps 1 and 2, given the resolved loan amount la = [r, v]
DecideFromAmount(opp, la) ==
  IF la.r = "raise" THEN [d |-> "raise", amount |-> 0, value |-> 0]
  ELSE IF NoValidLoanAmount(la.v) THEN [d |-> "skip", amount |-> la.v, value |-> 0]
  ELSE DecideUpdate(opp, la.v, calculate_commission(la.v))

\* What the loop body does with one record, before any remote call:
\* "raise" (an exception leaves the function), "skip", "correct", "write"
BatchDecision(opp) == DecideFromAmount(opp, get_loan_amount(opp))

\* The write call of the batch loop: update_opportunity_value(pipeline_id,
\* opp_id, expected_value), no existing_opp
BatchWriteEntry(opp, value, resp) ==
  [mode |-> "batch", by |-> "batch", pass |-> passes, pipelineId |-> opp.pipelineId,
   id |-> opp.id, value |-> value, payload |-> BuildPayload(value, NoOpp),
   resp |-> resp, ret |-> UpdateReturn(client, resp), opp |-> opp, override |-> Missing]

\* "success = client.update_opportunity_value(...)" and the two counters
BatchWrite(w) ==
  /\ writes' = Append(writes, w)
  /\ store' = StoreAfterPut(store, w.id, w.resp, w.value)
  /\ updated_count' = IF w.ret THEN updated_count + 1 ELSE updated_count
  /\ errors_count' = IF w.ret THEN errors_count ELSE errors_count + 1
  /\ idx' = idx + 1
  /\ UNCHANGED bpc

BatchApply(opp, dec) ==
  CASE dec.d = "raise" ->
         /\ bpc' = "raised"
         /\ UNCHANGED <<store, writes, idx, updated_count, errors_count>>
    [] dec.d \in {"skip", "correct"} ->
         /\ idx' = idx + 1
         /\ UNCHANGED <<store, writes, bpc, updated_count, errors_count>>
    [] dec.d = "write" ->
         \E resp \in Responses : BatchWrite(BatchWriteEntry(opp, dec.value, resp))

\* One iteration of "for opp in opportunities"
BatchStep ==
  /\ mode = "batch"
  /\ bpc = "running"
  /\ idx <= Len(opps)
  /\ BatchApply(opps[idx], BatchDecision(opps[idx]))
  /\ UNCHANGED <<mode, client, opps, passes>>
  /\ UNCHANGED eventVars
  /\ UNCHANGED pureVars

\* "return updated_count, errors_count"
BatchReturn ==
  /\ mode = "batch"
  /\ bpc = "running"
  /\ idx > Len(opps)
  /\ bpc' = "returned"
  /\ UNCHANGED <<mode, store, writes, client, opps, idx, updated_count, errors_count, passes>>
  /\ UNCHANGED eventVars
  /\ UNCHANGED pureVars

BatchNext == BatchStart \/ BatchStep \/ BatchReturn

SpecBatch == InitBatch /\ InitCommon /\ [][BatchNext]_vars

\* ------------------------------------------------------------------------
\* Event mode: handle_webhook, get_opportunity, process_single_opportunity
\* ------------------------------------------------------------------------
\* Stores of an event run: opp1 in pip1, open or closed, or no record at all
EventStores ==
  { [i \in {"opp1", "opp2", "opp3"} |->
       IF i = "opp1" THEN Opp("opp1", "pip1", "open", v, st, f) ELSE NoOpp] :
     v \in {PyNone, Num(150000), Num(300000), Str(Chars("abc")), Other},
     st \in {<<Missing, Missing>>, OpenState},
     f \in {<<>>, <<ById(Num(10000000))>>, <<NullName, ById(Num(10000000))>>} }
  \cup { [i \in {"opp1", "opp2", "opp3"} |->
            IF i = "opp1"
            THEN Opp("opp1", "pip1", "won", Num(50000), OpenState, <<ById(Num(10000000))>>)
            ELSE NoOpp],
         [i \in {"opp1", "opp2", "opp3"} |-> NoOpp] }

\* The four customData keys, in the order the handler tries them:
\* "loan-amount", "loan_amount", "Loan Amount", "loan amount"
AmountSamples ==
  { <<Missing, Missing, Missing, Missing>>,
    <<Missing, Str(Chars("$200,000")), Missing, Missing>>,
    <<Num(0), Num(5000000), Missing, Missing>>,
    <<Num(20000000), Missing, Missing, Missing>>,
    <<Missing, Missing, Str(Chars("abc")), Missing>>,
    <<Missing, Missing, Missing, Num(-500)>>,
    <<Missing, Str(Chars("0")), Missing, Missing>>,
    <<Other, Missing, Missing, Missing>> }

\* Webhook bodies: no JSON at all, or an object with the keys the handler reads
Requests ==
  {NoReq}
  \cup { [body |-> "json", id |-> i, pipelineId |-> h[1], pipeline_id |-> h[2],
          customData |-> cd, amounts |-> <<Missing, Missing, Missing, Missing>>] :
         i \in {"", "opp1"},
         h \in {<<"", "">>, <<"pip1", "">>},
         cd \in {"missing", "null"} }
  \cup { [body |-> "json", id |-> i, pipelineId |-> h[1], pipeline_id |-> h[2],
          customData |-> "dict", amounts |-> a] :
         i \in {"", "opp1"},
         h \in {<<"", "">>, <<"pip1", "">>, <<"", "pip2">>},
         a \in AmountSamples }

\* Two requests handled at once, both about opp1: the record with a stored
\* value that is null, on the target of its field amount, or a cent off it
ConcurrentStores ==
  { [i \in {"opp1", "opp2", "opp3"} |->
       IF i = "opp1"
       THEN Opp("opp1", "pip1", "open", v, OpenState, <<ById(Num(10000000))>>)
       ELSE NoOpp] :
     v \in {PyNone, Num(150000), Num(150001)} }

\* Their bodies: the id alone, or the id with an override amount
ConcurrentRequests ==
  { [body |-> "json", id |-> "opp1", pipelineId |-> "", pipeline_id |-> "",
     customData |-> "dict", amounts |-> a] :
     a \in { <<Missing, Missing, Missing, Missing>>,
             <<Missing, Str(Chars("$200,000")), Missing, Missing>> } }

InitConcurrent ==
  /\ mode = "concurrent"
  /\ PureIdle
  /\ store \in ConcurrentStores
  /\ client = "app"
  /\ InitCommon

\* The calls that run, and the bodies they can carry
ActiveCalls == IF mode = "concurrent" THEN Calls ELSE {"c1"}
RequestSamples == IF mode = "concurrent" THEN ConcurrentRequests ELSE Requests

InitEvent ==
  /\ mode = "event"
  /\ PureIdle
  /\ store \in EventStores
  /\ client = "app"

\* custom_data.get(k1) or custom_data.get(k2) or ... in handle_webhook
PayloadLoanAmount(amounts) ==
  PyOr(PyOr(PyOr(Get(amounts[1]), Get(amounts[2])), Get(amounts[3])), Get(amounts[4]))

\* data.get("pipelineId") or data.get("pipeline_id")
PipelineHint(r) == IF r.pipelineId # "" THEN r.pipelineId ELSE r.pipeline_id

\* handle_webhook before it calls process_single_opportunity: 400 for no
\* body, 500 when custom_data.get raises on a customData that is null
\* (AttributeError leaves the view), 400 for a missing id, else 0 (go on)
WebhookScreen(r) ==
  IF r.body = "none" THEN 400
  ELSE IF r.customData = "null" THEN 500
  ELSE IF r.id = "" THEN 400
  ELSE 0

\* Answers the direct fetch of get_opportunity can get from the store
DirectAnswers(st, opportunity_id, pipeline_id) ==
  (IF st[opportunity_id] # NoOpp /\ st[opportunity_id].pipelineId = pipeline_id
   THEN {"200"} ELSE {"404"})
  \cup {"other", "exception"}

DirectTag(direct) ==
  CASE direct = "200" -> "direct:200"
    [] direct = "404" -> "direct:404"
    [] direct = "other" -> "direct:other"
    [] direct = "exception" -> "direct:exception"

FindById(list, opportunity_id) ==
  IF \E k \in 1..Len(list) : list[k].id = opportunity_id
  THEN list[CHOOSE k \in 1..Len(list) :
              /\ list[k].id = opportunity_id
              /\ \A j \in 1..(k - 1) : list[j].id # opportunity_id]
  ELSE NoOpp

\* get_opportunity: direct is the answer of the direct fetch ("" when no
\* pipeline is given), okPipes the pipelines whose listing answers.
\* Returns the record (NoOpp for None) and the remote reads made.
get_opportunity(st, opportunity_id, pipeline_id, direct, okPipes) ==
  IF pipeline_id # "" /\ direct = "200"
  THEN [opp |-> st[opportunity_id], trail |-> <<"direct:200">>]
  ELSE [opp |-> FindById(fetch_opportunities(st, okPipes), opportunity_id),
        trail |-> (IF pipeline_id # "" THEN <<DirectTag(direct)>> ELSE <<>>)
                  \o <<"scan">>]

ScreenedOut(c, http) ==
  /\ epc' = [epc EXCEPT ![c] = "done"]
  /\ eres' = [eres EXCEPT ![c] =
       [http |-> http, status |-> "error", success |-> FALSE, message |-> ""]]
  /\ eopp' = [eopp EXCEPT ![c] = NoOpp]
  /\ edec' = [edec EXCEPT ![c] = NoDecision]
  /\ trail' = [trail EXCEPT ![c] = <<>>]

Fetched(c, g) ==
  /\ epc' = [epc EXCEPT ![c] = "fetched"]
  /\ eopp' = [eopp EXCEPT ![c] = g.opp]
  /\ trail' = [trail EXCEPT ![c] = g.trail]
  /\ eres' = [eres EXCEPT ![c] = NoResult]
  /\ edec' = [edec EXCEPT ![c] = NoDecision]

Receive(c, r, screen) ==
  /\ req' = [req EXCEPT ![c] = r]
  /\ deliveries' = [deliveries EXCEPT ![c] = @ + 1]
  /\ IF screen # 0
     THEN ScreenedOut(c, screen)
     ELSE \E direct \in DirectAnswers(store, r.id, PipelineHint(r)),
             okPipes \in {{}, Pipelines} :
            Fetched(c, get_opportunity(store, r.id, PipelineHint(r), direct, okPipes))

\* The handler up to and including get_opportunity
EvReceive(c) ==
  /\ mode \in {"event", "concurrent"}
  /\ c \in ActiveCalls
  /\ epc[c] \in {"idle", "done"}
  /\ deliveries[c] < MaxPasses
  /\ \E r \in (IF deliveries[c] = 0 THEN RequestSamples ELSE {req[c]}) :
       Receive(c, r, WebhookScreen(r))
  /\ UNCHANGED <<mode, store, writes>>
  /\ UNCHANGED batchVars
  /\ UNCHANGED pureVars

\* float() of the payload amount, text cleaned of '$', ',' and blanks first
PayloadFloat(payload_loan_amount) ==
  IF payload_loan_amount.t = "str"
  THEN PyFloat(Str(CleanCurrency(payload_loan_amount.s)))
  ELSE PyFloat(payload_loan_amount)

FromFields(la) == [r |-> la.r, v |-> la.v, source |-> "fields"]

\* The payload branch: TypeError leaves the function, ValueError leaves
\* loan_amount at 0.0, and "if loan_amount <= 0" falls back to the record
ResolveWithPayload(opp, f) ==
  IF f.r = "TypeError" THEN [r |-> "raise", v |-> 0, source |-> "payload"]
  ELSE IF f.r = "ok" /\ f.v > 0 THEN [r |-> "ok", v |-> f.v, source |-> "payload"]
  ELSE FromFields(get_loan_amount(opp))

\* Amount resolution of process_single_opportunity: the payload amount when
\* it is truthy and float() of it is > 0, else get_loan_amount(opp)
ResolveAmount(opp, payload_loan_amount) ==
  IF Truthy(payload_loan_amount)
  THEN ResolveWithPayload(opp, PayloadFloat(payload_loan_amount))
  ELSE FromFields(get_loan_amount(opp))

\* What process_single_opportunity decides once the record is fetched
SingleDecision(opp, payload_loan_amount) ==
  IF opp = NoOpp THEN [d |-> "not_found", amount |-> 0, value |-> 0]
  ELSE DecideFromAmount(opp, ResolveAmount(opp, payload_loan_amount))

\* The (success, message) pair of process_single_opportunity
SingleResult(d, ret) ==
  CASE d = "not_found" -> [success |-> FALSE, message |-> "not found"]
    [] d = "raise" -> [success |-> FALSE, message |-> "Error"]
    [] d = "skip" -> [success |-> FALSE, message |-> "Skipped: No valid Loan Amount"]
    [] d = "correct" -> [success |-> TRUE, message |-> "No update needed"]
    [] d = "write" /\ ret -> [success |-> TRUE, message |-> "Updated successfully"]
    [] d = "write" /\ ~ret -> [success |-> FALSE, message |-> "Failed to update API"]

\* The HTTP answer of handle_webhook after process_single_opportunity
WebhookAnswer(res) ==
  [http |-> 200, status |-> IF res.success THEN "success" ELSE "ignored",
   success |-> res.success, message |-> res.message]

\* The write made relative to the value the call fetched (the target added
\* to the stored number), so that what is stored depends on which copy of
\* the record the writing call had read
EventWriteEntry_Relative(c, opp, value, resp) ==
  [mode |-> "event", by |-> c, pass |-> deliveries[c], pipelineId |-> opp.pipelineId,
   id |-> req[c].id, value |-> value + opp.monetaryValue.v,
   payload |-> BuildPayload(value + opp.monetaryValue.v, opp),
   resp |-> resp, ret |-> UpdateReturnApp(resp), opp |-> opp,
   override |-> PayloadLoanAmount(req[c].amounts)]

\* The write of event mode: update_opportunity_value(opp.get("pipelineId"),
\* opp_id, expected_value, existing_opp=opp)
EventWriteEntry(c, opp, value, resp) ==
  [mode |-> "event", by |-> c, pass |-> deliveries[c], pipelineId |-> opp.pipelineId,
   id |-> req[c].id, value |-> value, payload |-> BuildPayload(value, opp),
   resp |-> resp, ret |-> UpdateReturnApp(resp), opp |-> opp,
   override |-> PayloadLoanAmount(req[c].amounts)]

EventWrite(c, w) ==
  /\ writes' = Append(writes, w)
  /\ store' = StoreAfterPut(store, w.id, w.resp, w.value)
  /\ eres' = [eres EXCEPT ![c] = WebhookAnswer(SingleResult("write", w.ret))]

EventApply(c, opp, dec) ==
  /\ edec' = [edec EXCEPT ![c] = dec]
  /\ IF dec.d = "write"
     THEN \E resp \in Responses : EventWrite(c, EventWriteEntry(c, opp, dec.value, resp))
     ELSE /\ eres' = [eres EXCEPT ![c] = WebhookAnswer(SingleResult(dec.d, FALSE))]
          /\ UNCHANGED <<store, writes>>

\* process_single_opportunity after the fetch, and the handler's answer
EvFinish(c) ==
  /\ mode \in {"event", "concurrent"}
  /\ c \in ActiveCalls
  /\ epc[c] = "fetched"
  /\ EventApply(c, eopp[c], SingleDecision(eopp[c], PayloadLoanAmount(req[c].amounts)))
  /\ epc' = [epc EXCEPT ![c] = "done"]
  /\ UNCHANGED <<mode, req, eopp, trail, deliveries>>
  /\ UNCHANGED batchVars
  /\ UNCHANGED pureVars

EventNext == \E c \in Calls : EvReceive(c) \/ EvFinish(c)

SpecEvent == InitEvent /\ InitCommon /\ [][EventNext]_vars

\* Event mode with two requests in flight at once
SpecConcurrent == InitConcurrent /\ [][EventNext]_vars

\* ------------------------------------------------------------------------
\* Single calls of get_loan_amount and should_update
\* ------------------------------------------------------------------------
\* Longest custom-field collection handed to a single get_loan_amount call
MaxFields == 2

\* Custom fields: a match by id, by key, by normalized name, by the name
\* with underscores stripped, matches whose value is unparseable text, null
\* or a list, a field that does not match, a field whose name is null
PureFields ==
  { ById(Num(10000000)),
    ByKey(Num(5000000)),
    ByName("Loan With/ MIPFunding Fee", Num(20000000)),
    ByName("LoanWithMipfundingFee", Str(Chars("$150,000.50"))),
    ById(Str(Chars("abc"))),
    ById(PyNone),
    ById(Other),
    Unrelated,
    NullName }

FieldLists == UNION { [1..n -> PureFields] : n \in 0..MaxFields }

\* Targets handed to a single should_update call: 1000.00 and 1500.00
TargetSamples == {100000, 150000}

PureCalls ==
  { [fn |-> "get_loan_amount", customFields |-> fs, monetaryValue |-> Missing,
     calculated_value |-> 0] : fs \in FieldLists }
  \cup { [fn |-> "should_update", customFields |-> <<>>, monetaryValue |-> mv,
          calculated_value |-> cv] : mv \in ValueSamples, cv \in TargetSamples }

InitPure ==
  /\ mode = "pure"
  /\ store = [i \in {"opp1", "opp2", "opp3"} |-> NoOpp]
  /\ client = "app"
  /\ pcall \in PureCalls
  /\ pret = NoReturn
  /\ InitCommon

\* What the caller of get_loan_amount gets: the float, or the exception
LoanAmountReturn(la) == [r |-> la.r, v |-> la.v, b |-> FALSE]

\* What the caller of should_update gets: the bool, or the exception
ShouldUpdateReturn(su) == [r |-> su.r, v |-> 0, b |-> su.b]

\* get_loan_amount(opportunity), called on its own
CallGetLoanAmount ==
  /\ mode = "pure"
  /\ pcall.fn = "get_loan_amount"
  /\ pret = NoReturn
  /\ pret' = LoanAmountReturn(get_loan_amount(pcall))
  /\ UNCHANGED <<mode, store, writes, client, pcall>>
  /\ UNCHANGED batchVars
  /\ UNCHANGED eventVars

\* should_update(opportunity, calculated_value), called on its own
CallShouldUpdate ==
  /\ mode = "pure"
  /\ pcall.fn = "should_update"
  /\ pret = NoReturn
  /\ pret' = ShouldUpdateReturn(should_update(pcall, pcall.calculated_value))
  /\ UNCHANGED <<mode, store, writes, client, pcall>>
  /\ UNCHANGED batchVars
  /\ UNCHANGED eventVars

PureNext == CallGetLoanAmount \/ CallShouldUpdate

SpecPure == InitPure /\ [][PureNext]_vars

Init == (InitBatch \/ InitEvent) /\ InitCommon

Next ==
  \/ BatchStart
  \/ BatchStep
  \/ BatchReturn
  \/ \E c \in Calls : EvReceive(c)
  \/ \E c \in Calls : EvFinish(c)

Spec == Init /\ [][Next]_vars

\* ------------------------------------------------------------------------
\* Properties
\* ------------------------------------------------------------------------
\* The loan amount a write was decided on, recomputed from the record the
\* entry point held and, in event mode, the payload amount
ResolvedAmount(w) ==
  IF w.mode = "batch" THEN FromFields(get_loan_amount(w.opp))
  ELSE ResolveAmount(w.opp, w.override)

PositiveAmount(a) == a.r = "ok" /\ a.v > 0

\* C1: in batch mode and in event mode alike, every write that is issued was
\* decided on a resolved loan amount > 0; a record whose amount is absent,
\* zero or negative gets no write at all, so never a write of value 0.
\* (The log only grows, so every write is the latest one in the state that
\* follows its issue: checking the latest write in every state checks all.)
C1_NoWriteWithoutAmount ==
  writes # <<>> => PositiveAmount(ResolvedAmount(writes[Len(writes)]))

IsZeroAmountRecord(opp) ==
  /\ BatchDecision(opp).d = "skip"
  /\ should_update(opp, 0).r = "ok"
  /\ should_update(opp, 0).b

\* A finished pass held a record without a positive amount, whose stored
\* value is not 0, and issued no write for it
C1_Witness ==
  /\ bpc = "returned"
  /\ \E k \in 1..Len(opps) :
       /\ IsZeroAmountRecord(opps[k])
       /\ \A j \in 1..Len(writes) : writes[j].id # opps[k].id

\* C6: reconciliation is idempotent.  No write is issued for a record whose
\* stored value already is the target, and once the remote store accepted a
\* write for a record no later pass (same amount, same rate) writes that
\* record again: a second pass over the unchanged store issues no write.
C6_Idempotent ==
  \A j \in 1..Len(writes) :
    /\ writes[j].opp.monetaryValue # Num(writes[j].value)
    /\ \A i \in 1..(j - 1) : ~(writes[i].id = writes[j].id /\ writes[i].resp = "2xx")

\* The second pass returned after re-reading a record the first pass had
\* written, found it correct and wrote nothing
C6_Witness ==
  /\ bpc = "returned"
  /\ passes = 2
  /\ Len(writes) = 1
  /\ writes[1].pass = 1
  /\ writes[1].resp = "2xx"
  /\ \E k \in 1..Len(opps) :
       /\ opps[k].id = writes[1].id
       /\ opps[k].monetaryValue = Num(writes[1].value)
       /\ BatchDecision(opps[k]).d = "correct"

\* The writes of the current batch pass, as positions in the log
PassWrites == {j \in 1..Len(writes) : writes[j].mode = "batch" /\ writes[j].pass = passes}

WritesFor(opp) == {j \in PassWrites : writes[j].id = opp.id}

WrittenAsDecided(opp, dec) ==
  IF dec.d = "write"
  THEN /\ Cardinality(WritesFor(opp)) = 1
       /\ \A j \in WritesFor(opp) :
            writes[j].pipelineId = opp.pipelineId /\ writes[j].value = dec.value
  ELSE WritesFor(opp) = {}

NeedsUpdateCount ==
  Cardinality({k \in 1..Len(opps) : BatchDecision(opps[k]).d = "write"})

\* C2: for any list given to batch mode, once process_opportunities is over
\* it has issued exactly one write per NeedsUpdate record (its pipelineId,
\* its id, the target value) and none for any other record, and it returned
\* updated_count = successful writes, error_count = failed writes, the two
\* adding up to the number of NeedsUpdate records.
C2_BatchWritesAndCounts ==
  bpc \in {"returned", "raised"} =>
    /\ \A k \in 1..Len(opps) : WrittenAsDecided(opps[k], BatchDecision(opps[k]))
    /\ updated_count = Cardinality({j \in PassWrites : writes[j].ret})
    /\ errors_count = Cardinality({j \in PassWrites : ~writes[j].ret})
    /\ updated_count + errors_count = NeedsUpdateCount

\* C3: a write the remote store answered with a non-2xx status, or whose
\* transport raised, returns False to its caller; a write counts as an
\* update only when the store accepted it, and event mode then answers
\* (False, "Failed to update API").
C3_FailedWriteReturnsFalse ==
  \A k \in 1..Len(writes) :
    /\ writes[k].ret <=> writes[k].resp = "2xx"
    /\ \A c \in Calls :
         (epc[c] = "done" /\ k = Len(writes) /\ writes[k].mode = "event"
            /\ writes[k].by = c /\ writes[k].pass = deliveries[c] /\ edec[c].d = "write"
            /\ writes[k].resp # "2xx")
         => (~eres[c].success /\ eres[c].message = "Failed to update API")

\* The answer of the remote store to the write of call c's current delivery
WriteAccepted(c) ==
  \E k \in 1..Len(writes) :
    /\ writes[k].mode = "event"
    /\ writes[k].by = c
    /\ writes[k].pass = deliveries[c]
    /\ writes[k].resp = "2xx"

\* C4: process_single_opportunity always returns a (success, message) pair:
\* False for not-found (with the not-found message), for a skip, for a failed
\* write and for an unexpected error; True exactly when the update was
\* confirmed or the stored value was already correct, with different messages.
C4_SingleResult ==
  \A c \in Calls :
    (epc[c] = "done" /\ eres[c].http = 200) =>
      /\ (eopp[c] = NoOpp => (~eres[c].success /\ eres[c].message = "not found"))
      /\ (edec[c].d \in {"skip", "raise"} => ~eres[c].success)
      /\ ((edec[c].d = "write" /\ ~WriteAccepted(c)) => ~eres[c].success)
      /\ (eres[c].success <=>
            (edec[c].d = "correct" \/ (edec[c].d = "write" /\ WriteAccepted(c))))
      /\ (eres[c].success =>
            (eres[c].message = "No update needed" <=> edec[c].d = "correct"))

\* The override as the claim reads it: its value when it is a number or
\* text that parses after cleaning, 0 when absent or unparseable
OverrideValue(x) ==
  IF x.t = "num" THEN x.v
  ELSE IF x.t = "str" /\ FloatOfText(CleanCurrency(x.s)).ok
       THEN FloatOfText(CleanCurrency(x.s)).v
  ELSE 0

AmountFromFields(opp, dec) ==
  get_loan_amount(opp).r = "ok" =>
    /\ dec.amount = get_loan_amount(opp).v
    /\ (dec.d = "raise" =>
          should_update(opp, calculate_commission(get_loan_amount(opp).v)).r = "raise")

\* C5: in event mode an override that parses to a value > 0 is the amount
\* used, whatever the record's custom fields hold; an override that is
\* absent, unparseable, zero or negative leaves the amount extracted from
\* the record's custom fields as the amount used.
C5_OverridePrecedence ==
  \A c \in Calls :
    (epc[c] = "done" /\ eres[c].http = 200 /\ eopp[c] # NoOpp) =>
      IF OverrideValue(PayloadLoanAmount(req[c].amounts)) > 0
      THEN edec[c].amount = OverrideValue(PayloadLoanAmount(req[c].amounts))
      ELSE AmountFromFields(eopp[c], edec[c])

Has(x) == x.t \notin {"missing", "none"}

\* C7: every write, from batch mode or from event mode, carries the
\* record's own status and stage id when the record has them, and carries
\* none when the record has none.
C7_StatePreserved ==
  \A k \in 1..Len(writes) :
    /\ writes[k].payload.status =
         (IF Has(writes[k].opp.status) THEN writes[k].opp.status ELSE Missing)
    /\ writes[k].payload.pipelineStageId =
         (IF Has(writes[k].opp.pipelineStageId) THEN writes[k].opp.pipelineStageId
          ELSE Missing)

\* C8: an error on one record never aborts a batch pass: the pass goes
\* through every record of the list and returns its pair of counts.
C8_BatchNeverAborts ==
  /\ bpc # "raised"
  /\ (bpc = "returned" => idx = Len(opps) + 1)

Malformed(r) == r.body = "none" \/ r.id = ""

\* C9: the webhook endpoint answers with a transport-level error only for
\* malformed input (no JSON body, no id), and then makes no remote call;
\* for every body that has an id it answers 200 with the outcome in a
\* message, whatever else the body holds.
C9_TransportStatus ==
  \A c \in Calls :
    epc[c] = "done" =>
      IF Malformed(req[c])
      THEN eres[c].http # 200 /\ trail[c] = <<>>
      ELSE eres[c].http = 200 /\ eres[c].message # ""

ScenarioRun ==
  /\ bpc = "returned"
  /\ passes = 1
  /\ opps = fetch_opportunities(ScenarioStore, Pipelines)
  /\ \A k \in 1..Len(writes) : writes[k].ret

\* C10: with the shipped rate, calculate_commission(100000) = 1000.0,
\* calculate_commission(150500) = 1505.0 and calculate_commission(0) = 0.0,
\* and the three-record batch of the test issues exactly one write,
\* ("pip1", "opp1", 1000.0), with updated = 1 and errors = 0.
C10_TestScenario ==
  ScenarioRun =>
    /\ calculate_commission(10000000) = 100000
    /\ calculate_commission(15050000) = 150500
    /\ calculate_commission(0) = 0
    /\ Len(writes) = 1
    /\ writes[1].pipelineId = "pip1"
    /\ writes[1].id = "opp1"
    /\ writes[1].value = 100000
    /\ updated_count = 1
    /\ errors_count = 0

\* A field matches as the matching policy reads: exact id, exact key, the
\* normalized name, or the normalized name with the underscores stripped
PolicyMatches(field) ==
  FieldMatches(GetDefault(field.id, Str(<<>>)), GetDefault(field.key, Str(<<>>)),
               IF field.name.t = "str" THEN field.name.s ELSE <<>>)

FirstMatch(fields) ==
  IF \E k \in 1..Len(fields) : PolicyMatches(fields[k])
  THEN CHOOSE k \in 1..Len(fields) :
         /\ PolicyMatches(fields[k])
         /\ \A j \in 1..(k - 1) : ~PolicyMatches(fields[j])
  ELSE 0

\* The amount one field stands for: its number, the parse of its cleaned
\* text, 0.0 when it is unparseable
FieldAmount(value) ==
  IF value.t = "num" THEN value.v
  ELSE IF value.t = "str" /\ FloatOfText(CleanCurrency(value.s)).ok
       THEN FloatOfText(CleanCurrency(value.s)).v
  ELSE 0

FirstMatchAmount(fields, k) == IF k = 0 THEN 0 ELSE FieldAmount(Get(fields[k].value))

\* C11: get_loan_amount returns what the first matching field of the
\* collection stands for (its number, its cleaned-text parse, 0.0 when it is
\* unparseable) whatever fields come after it, and 0.0 when no field matches.
C11_FirstMatchWins ==
  (pcall.fn = "get_loan_amount" /\ pret # NoReturn) =>
    /\ pret.r = "ok"
    /\ pret.v = FirstMatchAmount(pcall.customFields, FirstMatch(pcall.customFields))

\* The stored value as a number: missing, null and anything that does not
\* parse as a number count as 0.0
StoredAmount(x) ==
  IF x.t = "num" THEN x.v
  ELSE IF x.t = "str" /\ FloatOfText(x.s).ok THEN FloatOfText(x.s).v
  ELSE 0

\* C12: should_update never raises, and for every stored value and target it
\* returns True exactly when |current - target| > 0.01, a stored value that
\* is missing, null or not parseable as a number of any type counting as 0.0.
C12_ShouldUpdateTotal ==
  (pcall.fn = "should_update" /\ pret # NoReturn) =>
    /\ pret.r = "ok"
    /\ pret.b <=> (Abs(StoredAmount(pcall.monetaryValue) - pcall.calculated_value) > Tolerance)

\* C13: get_opportunity returns the directly fetched record, with no scan,
\* when a pipeline hint is given and the direct fetch succeeds; it scans all
\* pipelines only when the hint is absent or the direct fetch answered 404;
\* a transport error or any other non-success answer of the direct fetch
\* triggers no scan; the result is the record asked for or None.
C13_ScanOnlyOnNotFound ==
  \A c \in Calls :
    trail[c] # <<>> =>
      /\ (trail[c][1] = "direct:200" =>
            (trail[c] = <<"direct:200">> /\ eopp[c] # NoOpp))
      /\ ((\E k \in 1..Len(trail[c]) : trail[c][k] = "scan") =>
            (trail[c] = <<"scan">> \/ trail[c] = <<"direct:404", "scan">>))
      /\ (PipelineHint(req[c]) = "" => trail[c] = <<"scan">>)
      /\ (eopp[c] # NoOpp => eopp[c].id = req[c].id)

\* Every call that runs has been delivered and none is between its fetch
\* and its answer
AllFinished == \A c \in ActiveCalls : deliveries[c] > 0 /\ epc[c] = "done"

\* One step of the remote store as last-write-wins has it: an applied write
\* sets the record's monetary value to the value written, and nothing else
\* changes the store
StoreFollowsWrites ==
  /\ Len(writes') <= Len(writes) + 1
  /\ IF writes' # writes /\ writes'[Len(writes')].resp = "2xx"
     THEN store' = [store EXCEPT ![writes'[Len(writes')].id].monetaryValue =
                                   Num(writes'[Len(writes')].value)]
     ELSE store' = store

\* A delivery of a call issues at most one write
OneWritePerCall ==
  \A i, j \in 1..Len(writes) :
    (writes[i].by = writes[j].by /\ writes[i].pass = writes[j].pass) => i = j

\* All the calls resolved the loan amount a, and so did every write
SameAmount(a) ==
  /\ \A c \in ActiveCalls : edec[c].d \in {"write", "correct"} /\ edec[c].amount = a
  /\ \A j \in 1..Len(writes) : ResolvedAmount(writes[j]).v = a

AllWritesApplied == \A j \in 1..Len(writes) : writes[j].resp = "2xx"

\* With every call on amount a and every write applied, the record holds
\* the target of a; when no call had to write, it still holds its initial
\* value, which every call found to be on the target already
TargetReached(a) ==
  IF writes # <<>>
  THEN store["opp1"].monetaryValue = Num(calculate_commission(a))
  ELSE ~should_update(store["opp1"], calculate_commission(a)).b

\* C14: with two webhook calls on the same record running concurrently,
\* each a fetch followed by at most one write and each on locals of its own,
\* the store is last-write-wins under every interleaving: the stored value
\* only ever changes to the value of the write the store applied last, so it
\* is the initial value while no write was applied; and once all calls have
\* finished, if they all resolved the same loan amount and their writes
\* succeeded, the stored value is the commission target of that amount.
C14_LastWriteWins ==
  /\ [][StoreFollowsWrites]_vars
  /\ [](OneWritePerCall)
  /\ []((AllFinished /\ AllWritesApplied) =>
          \A c \in ActiveCalls : SameAmount(edec[c].amount) => TargetReached(edec[c].amount))

\* Both calls fetched the record before either wrote (the second write was
\* decided on the value the first one replaced), both resolved the same
\* amount, both writes were applied, and all calls have finished
C14_Witness ==
  /\ mode = "concurrent"
  /\ AllFinished
  /\ Len(writes) = 2
  /\ writes[1].by # writes[2].by
  /\ AllWritesApplied
  /\ writes[2].opp.monetaryValue = writes[1].opp.monetaryValue
  /\ SameAmount(edec["c1"].amount)
  /\ store["opp1"].monetaryValue = Num(calculate_commission(edec["c1"].amount))

====
